---- MODULE Spec2Model ----
(***************************************************************************)
(* Rendered-page capture service: the proxy coordinator (ProxyServer), the *)
(* per-request browser session (SeleniumBrowser / HeadlessChrome /         *)
(* StealthChrome), its five-stage readiness wait and its teardown, and the *)
(* request handlers that drive one session per request.                    *)
(*                                                                         *)
(* Time is counted in ticks of one fast poll interval (poll_frequency =    *)
(* 0.05 s).  The clock advances while a wait sleeps or blocks; script      *)
(* evaluation and bookkeeping between two sleeps take no ticks.            *)
(***************************************************************************)
EXTENDS Integers, Sequences, FiniteSets, TLC

(***************************************************************************)
(* Program constants                                                       *)
(***************************************************************************)
\* poll_frequency=0.05 of the quiet-window waits, in milliseconds: one tick
TickMs == 50
\* idle_ms of wait_network_idle
idle_ms == 600
\* idle_ms of wait_dom_quiet
dom_idle_ms == 400
\* the poll interval of a WebDriverWait built without poll_frequency (0.5 s)
DefaultPollMs == 500

IdleTicks == idle_ms \div TickMs
DomIdleTicks == dom_idle_ms \div TickMs
DefaultPoll == DefaultPollMs \div TickMs
FastPoll == 1

(***************************************************************************)
(* Bounds of the model                                                     *)
(***************************************************************************)
\* the largest timeout in ticks: the one a request asks for, and the
\* deployment's PAGELOAD_TIMEOUT
MaxTimeout == 26
\* the longest cookie list of a request
MaxCookies == 2
\* the most network operations the page keeps in flight at once
MaxInflight == 1
\* close() calls made on a session after its scope exit and its finalizer
MaxCloses == 1
\* the calls one thread makes into the coordinator
MaxCalls == 2

_DEFAULT_TIMEOUT == MaxTimeout

None == "None"
\* the None of a variable that holds a time
NoTime == -1
Urls == {"https://example.test/slow", "https://example.test/other"}
CookieName(i) == IF i = 1 THEN "c1" ELSE IF i = 2 THEN "c2" ELSE "c3"
\* a cookie list is absent (None), empty, or the list c1..cn, n = MaxCookies
CookieSeqs == {<<>>, [i \in 1..MaxCookies |-> CookieName(i)]}
CookieLists == {[present |-> FALSE, list |-> <<>>]}
               \cup {[present |-> TRUE, list |-> l] : l \in CookieSeqs}
HeaderPairs == {<<"X-Test", "1">>}
HeaderMaps == SUBSET HeaderPairs
\* a request's timeout: absent or 0 (both fall back to the default), negative,
\* one poll interval short of the two quiet windows together (0.95 s), or
\* the largest
Timeouts == {-1, 0, IdleTicks + DomIdleTicks - 1, MaxTimeout}
\* main.py constructs the one ProxyServer of the process
Coordinators == {"proxy_server"}
\* the ProxyServer objects the class lets a process construct
ProxyServers == Coordinators \cup {"another"}
\* the threads of the process that reach the coordinator: the main thread
\* (module import, the exit hook) and a worker thread running a request
Threads == {"MainThread", "worker"}

(***************************************************************************)
(* Exceptions and responses                                                *)
(***************************************************************************)
Exc(type, text, step) == [type |-> type, text |-> text, step |-> step]
NoExc == Exc("none", "", "")

VARIABLES
    \* proxy_utils: the process-wide reference and each coordinator's handle
    _proxy_server, _server, serverStops,
    \* the request and its session object
    pc, endpoint, _timeout, _cookies, _proxy, _driver, _client,
    \* the engine and the page it shows
    readyState, loadEventEnd, netHooked, inflight, mutObs, lastMut,
    \* the readiness wait
    now, deadline, stageIdx, phase, end_time, netTimeout, quiet_start, pending,
    \* what the request produced
    artifact, response,
    \* history
    ops, stagesOk, startedLate, zeroSince, quietBroken, created,
    enginesLaunched, quitCalls, clientsCreated, clientCloseCalls,
    closeCalls, closeRaised, primary,
    \* the errors of the proxy client's close that close() logged
    clientCloseErrors,
    \* the coordinator under concurrent callers: each ProxyServer's proxy
    \* process, the stop() calls it received, the objects whose constructor
    \* returned, each thread's place in its call, whether two calls overlapped
    process, stops, held, threads, overlapped,
    \* StealthChrome._create_driver: the identity it gives the engine
    _headers, user_agent, accept_language, cdp_override_args, navigator,
    cdp_log, spc

coordVars == <<_proxy_server, _server, serverStops>>
sessVars == <<pc, endpoint, _timeout, _cookies, _proxy, _driver, _client>>
pageVars == <<readyState, loadEventEnd, netHooked, inflight, mutObs, lastMut>>
waitVars == <<now, deadline, stageIdx, phase, end_time, netTimeout, quiet_start, pending>>
outVars == <<artifact, response>>
histVars == <<ops, stagesOk, startedLate, zeroSince, quietBroken, created,
              enginesLaunched, quitCalls, clientsCreated, clientCloseCalls,
              closeCalls, closeRaised, primary>>
threadVars == <<process, stops, held, threads, overlapped>>
stealthVars == <<_headers, user_agent, accept_language, cdp_override_args,
                 navigator, cdp_log, spc>>
vars == <<coordVars, sessVars, pageVars, waitVars, outVars, histVars,
          clientCloseErrors, threadVars, stealthVars>>

Op(op, arg) == [op |-> op, arg |-> arg]
\* a thread outside any call of the coordinator
IdleThread == [pc |-> "idle", op |-> None, c |-> None, h0 |-> None,
               touched |-> FALSE, result |-> None, ref |-> None, calls |-> 0]
\* cdp_override_args and the page's navigator before _create_driver sets them
NoOverride == [userAgent |-> None, acceptLanguage |-> None, platform |-> None]
NoNavigator == [languages |-> <<>>, platform |-> None]
NoResponse == [status |-> "none", name |-> "", text |-> "", step |-> ""]

Init ==
    /\ _proxy_server = None
    /\ _server = [c \in ProxyServers |-> "unborn"]
    /\ serverStops = 0
    /\ pc = "idle"
    /\ endpoint = None
    /\ _timeout = 0
    /\ _cookies = [present |-> FALSE, list |-> <<>>]
    /\ _proxy = None
    /\ _driver = "unset"
    /\ _client = None
    /\ readyState = "none"
    /\ loadEventEnd = 0
    /\ netHooked = FALSE
    /\ inflight = 0
    /\ mutObs = FALSE
    /\ lastMut = 0
    /\ now = 0
    /\ deadline = 0
    /\ stageIdx = 0
    /\ phase = "none"
    /\ end_time = 0
    /\ netTimeout = 0
    /\ quiet_start = NoTime
    /\ pending = NoExc
    /\ artifact = None
    /\ response = NoResponse
    /\ ops = <<>>
    /\ stagesOk = 0
    /\ startedLate = FALSE
    /\ zeroSince = NoTime
    /\ quietBroken = FALSE
    /\ created = [headers |-> FALSE, stealth |-> FALSE, coordinator |-> None]
    /\ enginesLaunched = 0
    /\ quitCalls = 0
    /\ clientsCreated = 0
    /\ clientCloseCalls = 0
    /\ closeCalls = 0
    /\ closeRaised = 0
    /\ primary = None
    /\ clientCloseErrors = 0
    /\ process = [c \in ProxyServers |-> "none"]
    /\ stops = [c \in ProxyServers |-> 0]
    /\ held = {}
    /\ threads = [t \in Threads |-> IdleThread]
    /\ overlapped = FALSE
    /\ _headers = <<>>
    /\ user_agent = None
    /\ accept_language = None
    /\ cdp_override_args = NoOverride
    /\ navigator = NoNavigator
    /\ cdp_log = <<>>
    /\ spc = "idle"

(***************************************************************************)
(* proxy_utils.py: the proxy coordinator                                   *)
(***************************************************************************)
get_proxy_server == _proxy_server

\* ProxyServer.__init__: start the proxy process and register the instance
ProxyServerInit(c) ==
    /\ pc = "idle"
    /\ _server[c] = "unborn"
    /\ _server' = [_server EXCEPT ![c] = "set"]
    /\ _proxy_server' = c
    /\ UNCHANGED <<serverStops, threadVars, stealthVars, clientCloseErrors,
                   sessVars, pageVars,
                   waitVars, outVars, histVars>>

\* ProxyServer.close: stop the process once; a failure of stop() is logged
ProxyServerClose(c) ==
    /\ pc = "idle"
    /\ _server[c] \in {"set", None}
    /\ IF _server[c] = "set"
       THEN /\ serverStops' = serverStops + 1
            /\ _server' = [_server EXCEPT ![c] = None]
            /\ _proxy_server' = None
       ELSE UNCHANGED coordVars
    /\ UNCHANGED <<threadVars, stealthVars, clientCloseErrors, sessVars, pageVars,
                   waitVars, outVars, histVars>>

(***************************************************************************)
(* The error handlers of the application (fastapi_utils.py, errors.py)     *)
(***************************************************************************)
\* InternalError(description): the 500 response a request receives
InternalError(text, step) ==
    [status |-> "error", name |-> "INTERNAL_ERROR", text |-> text, step |-> step]

\* ErrorHandler.generic: any other exception becomes InternalError(str(exc))
generic(e) == InternalError(e.text, e.step)

(***************************************************************************)
(* selenium_utils.py: session creation                                     *)
(***************************************************************************)
\* where _create_driver can fail: nowhere, in create_proxy, in add_headers,
\* in the engine launch, or (stealth) in a command sent to the launched engine
CreateFailures == {"none", "create_proxy", "add_headers", "launch", "cdp"}

\* a slip of _create_driver: the user-agent override is issued before the
\* network-event instrumentation is enabled
CdpCommands_override_before_enable ==
    <<Op("cdp", "Page.addScriptToEvaluateOnNewDocument"),
      Op("cdp", "Emulation.setTimezoneOverride"),
      Op("cdp", "Network.setUserAgentOverride"),
      Op("cdp", "Network.enable")>>

\* the protocol commands StealthChrome._create_driver issues, in its order
CdpCommands == <<Op("cdp", "Page.addScriptToEvaluateOnNewDocument"),
                 Op("cdp", "Emulation.setTimezoneOverride"),
                 Op("cdp", "Network.enable"),
                 Op("cdp", "Network.setUserAgentOverride")>>

\* ProxyClient.get_address: the address the proxy process gave the client
get_address(client) == IF client = "client" THEN "localhost:8081" ELSE None

\* the rules ProxyClient.add_headers installs for a header map
HeaderRule(headers) == IF <<"X-Test", "1">> \in headers THEN "X-Test:1" ELSE ""

\* a slip of _create_driver: with no coordinator it goes on without a proxy
AcquireProxy_goes_on_without(headers, fail) ==
    IF headers = {} \/ get_proxy_server = None
    THEN [exc |-> NoExc, proxy |-> None, log |-> <<>>]
    ELSE IF _server[get_proxy_server] # "set"
    THEN [exc |-> Exc("RuntimeError", "Proxy server not initialized or closed", ""),
          proxy |-> None, log |-> <<>>]
    ELSE IF fail = "create_proxy"
    THEN [exc |-> Exc("ConnectionError", "create_proxy failed", ""),
          proxy |-> None, log |-> <<>>]
    ELSE IF fail = "add_headers"
    THEN [exc |-> Exc("ConnectionError", "headers failed", ""),
          proxy |-> "client", log |-> <<Op("new_client", "")>>]
    ELSE [exc |-> NoExc, proxy |-> "client",
          log |-> <<Op("new_client", ""), Op("add_headers", HeaderRule(headers)),
                    Op("add_argument", get_address("client"))>>]

\* a slip of _create_driver: the engine is given the proxy before the
\* caller's header rules are installed on the client
AcquireProxy_headers_after_argument(headers, fail) ==
    IF headers = {} THEN [exc |-> NoExc, proxy |-> None, log |-> <<>>]
    ELSE IF get_proxy_server = None
    THEN [exc |-> Exc("Exception", "proxy server not available", ""),
          proxy |-> None, log |-> <<>>]
    ELSE IF _server[get_proxy_server] # "set"
    THEN [exc |-> Exc("RuntimeError", "Proxy server not initialized or closed", ""),
          proxy |-> None, log |-> <<>>]
    ELSE IF fail = "create_proxy"
    THEN [exc |-> Exc("ConnectionError", "create_proxy failed", ""),
          proxy |-> None, log |-> <<>>]
    ELSE IF fail = "add_headers"
    THEN [exc |-> Exc("ConnectionError", "headers failed", ""),
          proxy |-> "client", log |-> <<Op("new_client", "")>>]
    ELSE [exc |-> NoExc, proxy |-> "client",
          log |-> <<Op("new_client", ""), Op("add_argument", get_address("client"))>>]

\* the proxy part of _create_driver: [exc, proxy, log]
AcquireProxy(headers, fail) ==
    IF headers = {} THEN [exc |-> NoExc, proxy |-> None, log |-> <<>>]
    ELSE IF get_proxy_server = None
    THEN [exc |-> Exc("Exception", "proxy server not available", ""),
          proxy |-> None, log |-> <<>>]
    ELSE IF _server[get_proxy_server] # "set"
    THEN [exc |-> Exc("RuntimeError", "Proxy server not initialized or closed", ""),
          proxy |-> None, log |-> <<>>]
    ELSE IF fail = "create_proxy"
    THEN [exc |-> Exc("ConnectionError", "create_proxy failed", ""),
          proxy |-> None, log |-> <<>>]
    ELSE IF fail = "add_headers"
    THEN [exc |-> Exc("ConnectionError", "headers failed", ""),
          proxy |-> "client", log |-> <<Op("new_client", "")>>]
    ELSE [exc |-> NoExc, proxy |-> "client",
          log |-> <<Op("new_client", ""), Op("add_headers", HeaderRule(headers)),
                    Op("add_argument", get_address("client"))>>]

\* the engine part of _create_driver: [exc, driver, launched, log]
LaunchEngine(stealth, fail) ==
    IF fail = "launch"
    THEN [exc |-> Exc("WebDriverException", "session not created", ""),
          driver |-> "unset", launched |-> 0, log |-> <<>>]
    ELSE IF stealth /\ fail = "cdp"
    THEN [exc |-> Exc("WebDriverException", "command failed", ""),
          driver |-> "unset", launched |-> 1,
          log |-> <<Op("launch", "uc.Chrome"), CdpCommands[1]>>]
    ELSE [exc |-> NoExc, driver |-> "set", launched |-> 1,
          log |-> IF stealth THEN <<Op("launch", "uc.Chrome")>> \o CdpCommands
                  ELSE <<Op("launch", "webdriver.Chrome")>>]

\* SeleniumBrowser.__init__ with the variant's _create_driver, as the request
\* handler calls it; an error here leaves the handler before its try block
NewSession(ep, stealth, headers, cookies, timeout, fail) ==
    /\ pc = "idle"
    /\ ep = "screenshot" =>
          /\ ~stealth /\ headers = {} /\ ~cookies.present /\ timeout = 0
    /\ fail \in {"create_proxy", "add_headers"} => headers # {}
    /\ fail = "cdp" => stealth
    /\ LET p == AcquireProxy(headers, fail)
           e == IF p.exc = NoExc THEN LaunchEngine(stealth, fail)
                ELSE [exc |-> p.exc, driver |-> "unset", launched |-> 0, log |-> <<>>]
       IN /\ fail \in {"create_proxy", "add_headers"} =>
                 p.exc.type = "ConnectionError"
          /\ endpoint' = ep
          /\ _timeout' = IF timeout = 0 THEN _DEFAULT_TIMEOUT ELSE timeout
          /\ _cookies' = cookies
          /\ _proxy' = p.proxy
          /\ _client' = p.proxy
          /\ _driver' = e.driver
          /\ clientsCreated' = clientsCreated + (IF p.proxy = None THEN 0 ELSE 1)
          /\ enginesLaunched' = enginesLaunched + e.launched
          /\ ops' = ops \o p.log \o e.log
          /\ created' = [headers |-> headers # {}, stealth |-> stealth,
                         coordinator |-> IF get_proxy_server # None
                                            /\ _server[get_proxy_server] = "set"
                                         THEN "running" ELSE "unavailable"]
          /\ IF e.exc = NoExc
             THEN /\ pc' = "created"
                  /\ UNCHANGED <<response, primary>>
             ELSE /\ pc' = "responded"
                  /\ response' = generic(e.exc)
                  /\ primary' = e.exc.type
    /\ UNCHANGED <<coordVars, threadVars, stealthVars, clientCloseErrors,
                   pageVars, waitVars, artifact, stagesOk, startedLate,
                   zeroSince, quietBroken, quitCalls, clientCloseCalls, closeCalls,
                   closeRaised>>

(***************************************************************************)
(* selenium_utils.py: SeleniumBrowser.get                                  *)
(***************************************************************************)
\* a slip of get(url): the cookies are set and the page is not loaded again
GetCommands_no_second_navigation(url, cookies) ==
    IF cookies.present /\ Len(cookies.list) > 0
    THEN <<Op("navigate", url)>>
         \o [i \in 1..Len(cookies.list) |-> Op("setCookie", cookies.list[i])]
    ELSE <<Op("navigate", url)>>

\* the commands get(url) sends when nothing fails
GetCommands(url, cookies) ==
    IF cookies.present /\ Len(cookies.list) > 0
    THEN <<Op("navigate", url)>>
         \o [i \in 1..Len(cookies.list) |-> Op("setCookie", cookies.list[i])]
         \o <<Op("navigate", url)>>
    ELSE <<Op("navigate", url)>>

\* get(url): navigate, apply the cookies and navigate again, then start the
\* readiness wait.  The command numbered failAt raises (0: none does);
\* a navigation raises a TimeoutException when the engine's own page-load
\* timeout expires, any command a WebDriverException.
Get(url, failAt, ftype) ==
    /\ pc = "created"
    /\ LET cmds == GetCommands(url, _cookies)
       IN /\ failAt \in 0..Len(cmds)
          /\ ftype = "TimeoutException" => failAt > 0 /\ cmds[failAt].op = "navigate"
          /\ failAt = 0 => ftype = "WebDriverException"
          /\ ops' = ops \o (IF failAt = 0 THEN cmds ELSE SubSeq(cmds, 1, failAt))
          /\ readyState' = "loading"
          /\ loadEventEnd' = 0
          /\ netHooked' = FALSE
          /\ inflight' = 0
          /\ mutObs' = FALSE
          /\ lastMut' = 0
          /\ IF failAt = 0
             THEN \* _wait_until_page_ready: start = monotonic(); deadline
                  /\ deadline' = now + _timeout
                  /\ stageIdx' = 1
                  /\ pc' = "wait"
                  /\ UNCHANGED <<pending, primary>>
             ELSE /\ pending' = Exc(ftype, "command failed", "")
                  /\ primary' = ftype
                  /\ pc' = "exit"
                  /\ UNCHANGED <<deadline, stageIdx>>
    /\ UNCHANGED <<coordVars, threadVars, stealthVars, clientCloseErrors,
                   endpoint, _timeout, _cookies, _proxy, _driver, _client,
                   now, phase, end_time, netTimeout, quiet_start, outVars,
                   stagesOk, startedLate, zeroSince, quietBroken, created,
                   enginesLaunched, quitCalls, clientsCreated, clientCloseCalls,
                   closeCalls, closeRaised>>

(***************************************************************************)
(* The page: what the engine does on its own while the session waits       *)
(***************************************************************************)
PageAlive == _driver = "set" /\ readyState # "none" /\ pc \in {"wait", "in_stage"}

PageReady ==
    /\ PageAlive
    /\ readyState = "loading"
    /\ readyState' = "complete"
    /\ UNCHANGED <<coordVars, threadVars, stealthVars, clientCloseErrors,
                   sessVars, loadEventEnd, netHooked, inflight, mutObs,
                   lastMut, waitVars, outVars, histVars>>

PageLoadEvent ==
    /\ PageAlive
    /\ readyState = "complete"
    /\ loadEventEnd = 0
    /\ loadEventEnd' = 1
    /\ UNCHANGED <<coordVars, threadVars, stealthVars, clientCloseErrors,
                   sessVars, readyState, netHooked, inflight, mutObs,
                   lastMut, waitVars, outVars, histVars>>

\* the wrapped fetch / XMLHttpRequest.send: window.__inflight++
PageFetchStart ==
    /\ PageAlive
    /\ netHooked
    /\ inflight < MaxInflight
    /\ inflight' = inflight + 1
    /\ UNCHANGED <<coordVars, threadVars, stealthVars, clientCloseErrors,
                   sessVars, readyState, loadEventEnd, netHooked, mutObs,
                   lastMut, waitVars, outVars, histVars>>

\* .finally / loadend: window.__inflight--
PageFetchEnd ==
    /\ PageAlive
    /\ inflight > 0
    /\ inflight' = inflight - 1
    /\ UNCHANGED <<coordVars, threadVars, stealthVars, clientCloseErrors,
                   sessVars, readyState, loadEventEnd, netHooked, mutObs,
                   lastMut, waitVars, outVars, histVars>>

\* the MutationObserver callback: window.__lastMut = performance.now()
PageMutation ==
    /\ PageAlive
    /\ mutObs
    /\ lastMut # now
    /\ lastMut' = now
    /\ UNCHANGED <<coordVars, threadVars, stealthVars, clientCloseErrors,
                   sessVars, readyState, loadEventEnd, netHooked, inflight,
                   mutObs, waitVars, outVars, histVars>>

(***************************************************************************)
(* selenium_utils.py: _wait_until_page_ready and the five wait functions   *)
(***************************************************************************)
\* the names of steps, in the order of the list
steps == <<"readyState", "loadEventEnd", "network idle", "DOM quiet", "next paint">>

\* remaining(): max(0.0, deadline - time.monotonic())
remaining == IF deadline - now > 0 THEN deadline - now ELSE 0

\* a slip of the loop's test: only a negative remainder stops the loop
BudgetExhausted_negative_only(rem) == rem < 0

\* the loop's test before a step: raise when nothing remains
BudgetExhausted(rem) == rem <= 0

\* the budget wait_network_idle gives its second wait
QuietBudget == netTimeout

\* the history of the network-idle wait in progress: since when every
\* evaluation of stop_condition has read a counter of zero (zeroSince), and
\* whether one read a busy counter after QuietBreak ticks of that quiet
QuietBreak == IdleTicks - 2
QuietHistoryReset ==
    /\ zeroSince' = NoTime
    /\ quietBroken' = FALSE

\* the frame of a wait function is gone once it returns or raises
FrameDropped ==
    /\ phase' = "none"
    /\ end_time' = 0
    /\ netTimeout' = 0
    /\ quiet_start' = NoTime

\* an exception leaves _wait_until_page_ready, get() and the with body
RaiseFromWait(e) ==
    /\ pending' = e
    /\ primary' = e.type
    /\ pc' = "exit"
    /\ FrameDropped

\* for name, wait_fn in steps: rem = remaining(); if rem <= 0: raise; wait_fn()
\* The call of wait_fn runs up to the first evaluation of its condition.
StageCheck ==
    /\ pc = "wait"
    /\ LET rem == remaining
       IN IF BudgetExhausted(rem)
          THEN /\ RaiseFromWait(Exc("TimeoutException", "Timeout before step",
                                    steps[stageIdx]))
               /\ UNCHANGED <<ops, netHooked, inflight, startedLate>>
          ELSE /\ ops' = Append(ops, Op("stage", steps[stageIdx]))
               /\ startedLate' = (startedLate \/ deadline - now <= 0)
               /\ pc' = "in_stage"
               /\ end_time' = now + rem
               /\ phase' = CASE stageIdx = 3 -> "zero"
                             [] stageIdx = 5 -> "script"
                             [] OTHER -> "poll"
               \* wait_network_idle: timeout = rem; hook the page once
               /\ netTimeout' = IF stageIdx = 3 THEN rem ELSE 0
               /\ netHooked' = IF stageIdx = 3 THEN TRUE ELSE netHooked
               /\ inflight' = IF stageIdx = 3 /\ ~netHooked THEN 0 ELSE inflight
               /\ UNCHANGED <<pending, primary, quiet_start>>
    /\ QuietHistoryReset
    /\ UNCHANGED <<coordVars, threadVars, stealthVars, clientCloseErrors,
                   endpoint, _timeout, _cookies, _proxy, _driver, _client,
                   readyState, loadEventEnd, mutObs, lastMut,
                   now, deadline, stageIdx, outVars, stagesOk, created,
                   enginesLaunched, quitCalls, clientsCreated, clientCloseCalls,
                   closeCalls, closeRaised>>

\* a slip of the loop: the step after the load event is passed over
StageReturns_skips_a_step ==
    /\ stagesOk' = stagesOk + 1
    /\ FrameDropped
    /\ IF stageIdx < Len(steps)
       THEN stageIdx' = (IF stageIdx = 2 THEN 4 ELSE stageIdx + 1) /\ pc' = "wait"
       ELSE stageIdx' = stageIdx /\ pc' = "extract"
    /\ UNCHANGED <<pending, primary>>

\* the wait function of the current step returns: the loop goes on to the
\* next step, or the wait, and get(), return
StageReturns ==
    /\ stagesOk' = stagesOk + 1
    /\ FrameDropped
    /\ IF stageIdx < Len(steps)
       THEN stageIdx' = stageIdx + 1 /\ pc' = "wait"
       ELSE stageIdx' = stageIdx /\ pc' = "extract"
    /\ UNCHANGED <<pending, primary>>

\* the wait goes round its loop once more, with its frame as `frame` leaves it
LoopsAgain(frame) ==
    /\ frame
    /\ UNCHANGED <<pc, pending, primary, stageIdx, stagesOk, phase, end_time,
                   netTimeout>>

\* WebDriverWait(driver, timeout, poll).until(method), one turn of its loop:
\* value = method(driver); if value: return; sleep(poll);
\* if monotonic() > end_time: raise TimeoutException(message = "")
\* `onTrue` is what follows the return, `d` the length of the sleep and
\* `frame` what the evaluation did to the caller's own variables.
Until(value, d, onTrue, frame) ==
    IF value
    THEN /\ onTrue
         /\ now' = now
    ELSE /\ now' = now + d
         /\ IF now' > end_time
            THEN /\ RaiseFromWait(Exc("TimeoutException", "", ""))
                 /\ UNCHANGED <<stageIdx, stagesOk>>
            ELSE LoopsAgain(frame)

\* wait_ready_event: document.readyState == "complete"
wait_ready_event ==
    /\ pc = "in_stage" /\ stageIdx = 1
    /\ Until(readyState = "complete", DefaultPoll, StageReturns,
             UNCHANGED quiet_start)
    /\ UNCHANGED <<coordVars, threadVars, stealthVars, clientCloseErrors,
                   endpoint, _timeout, _cookies, _proxy, _driver, _client,
                   pageVars, deadline, outVars, ops, startedLate,
                   zeroSince, quietBroken, created, enginesLaunched, quitCalls, clientsCreated,
                   clientCloseCalls, closeCalls, closeRaised>>

\* wait_lazyload: the navigation entry's loadEventEnd > 0
wait_lazyload ==
    /\ pc = "in_stage" /\ stageIdx = 2
    /\ Until(loadEventEnd > 0, DefaultPoll, StageReturns,
             UNCHANGED quiet_start)
    /\ UNCHANGED <<coordVars, threadVars, stealthVars, clientCloseErrors,
                   endpoint, _timeout, _cookies, _proxy, _driver, _client,
                   pageVars, deadline, outVars, ops, startedLate,
                   zeroSince, quietBroken, created, enginesLaunched, quitCalls, clientsCreated,
                   clientCloseCalls, closeCalls, closeRaised>>

\* wait_network_idle, first wait: WebDriverWait(driver, remaining()) until
\* window.__inflight is 0; then quiet_start = None and the second wait,
\* WebDriverWait(driver, timeout, poll_frequency=0.05), begins
wait_network_idle_zero ==
    /\ pc = "in_stage" /\ stageIdx = 3 /\ phase = "zero"
    /\ Until(inflight = 0, DefaultPoll,
             /\ phase' = "quiet"
             /\ quiet_start' = NoTime
             /\ end_time' = now + QuietBudget
             /\ UNCHANGED <<pc, pending, primary, stageIdx, stagesOk, netTimeout>>,
             UNCHANGED quiet_start)
    /\ UNCHANGED <<coordVars, threadVars, stealthVars, clientCloseErrors,
                   endpoint, _timeout, _cookies, _proxy, _driver, _client,
                   pageVars, deadline, outVars, ops, startedLate, zeroSince, quietBroken,
                   created, enginesLaunched, quitCalls, clientsCreated,
                   clientCloseCalls, closeCalls, closeRaised>>

\* a slip of stop_condition: a busy counter leaves quiet_start as it was
stop_condition_keeps_start(inf, t, qs) ==
    IF inf = 0
    THEN LET q == IF qs = NoTime THEN t ELSE qs
         IN [quiet_start |-> q, value |-> (t - q) >= IdleTicks]
    ELSE [quiet_start |-> qs, value |-> FALSE]

\* stop_condition(d): [quiet_start, value] after one evaluation at time t
stop_condition(inf, t, qs) ==
    IF inf = 0
    THEN LET q == IF qs = NoTime THEN t ELSE qs
         IN [quiet_start |-> q, value |-> (t - q) >= IdleTicks]
    ELSE [quiet_start |-> NoTime, value |-> FALSE]

\* wait_network_idle, second wait: until(stop_condition)
wait_network_idle_quiet ==
    /\ pc = "in_stage" /\ stageIdx = 3 /\ phase = "quiet"
    /\ LET r == stop_condition(inflight, now, quiet_start)
       IN Until(r.value, FastPoll, StageReturns, quiet_start' = r.quiet_start)
    /\ zeroSince' = IF inflight # 0 THEN NoTime
                    ELSE IF zeroSince = NoTime THEN now ELSE zeroSince
    /\ quietBroken' = (quietBroken \/ (inflight # 0 /\ zeroSince # NoTime
                                        /\ now - zeroSince >= QuietBreak))
    /\ UNCHANGED <<coordVars, threadVars, stealthVars, clientCloseErrors,
                   endpoint, _timeout, _cookies, _proxy, _driver, _client,
                   pageVars, deadline, outVars, ops, startedLate,
                   created, enginesLaunched, quitCalls, clientsCreated,
                   clientCloseCalls, closeCalls, closeRaised>>

\* a slip of wait_dom_quiet: a new observer counts from the page's time
\* origin, not from the moment it is installed
wait_dom_quiet_from_time_origin ==
    /\ pc = "in_stage" /\ stageIdx = 4
    /\ LET last == IF mutObs THEN lastMut ELSE 0
       IN /\ mutObs' = TRUE
          /\ lastMut' = last
          /\ Until(now - last >= DomIdleTicks, FastPoll, StageReturns,
                   UNCHANGED quiet_start)
    /\ UNCHANGED <<coordVars, threadVars, stealthVars, clientCloseErrors,
                   endpoint, _timeout, _cookies, _proxy,
                   _driver, _client, readyState, loadEventEnd, netHooked, inflight,
                   deadline, outVars, ops, startedLate,
                   zeroSince, quietBroken, created, enginesLaunched, quitCalls,
                   clientsCreated, clientCloseCalls, closeCalls, closeRaised>>

\* wait_dom_quiet: the script installs the observer once, then reports
\* performance.now() - window.__lastMut; until it is >= idle_ms
wait_dom_quiet ==
    /\ pc = "in_stage" /\ stageIdx = 4
    /\ LET last == IF mutObs THEN lastMut ELSE now
       IN /\ mutObs' = TRUE
          /\ lastMut' = last
          /\ Until(now - last >= DomIdleTicks, FastPoll, StageReturns,
                   UNCHANGED quiet_start)
    /\ UNCHANGED <<coordVars, threadVars, stealthVars, clientCloseErrors,
                   endpoint, _timeout, _cookies, _proxy,
                   _driver, _client, readyState, loadEventEnd, netHooked, inflight,
                   deadline, outVars, ops, startedLate,
                   zeroSince, quietBroken, created, enginesLaunched, quitCalls, clientsCreated,
                   clientCloseCalls, closeCalls, closeRaised>>

\* wait_animation_frame: set_script_timeout(timeout); execute_async_script
\* blocks until the second animation frame calls back, or the engine gives
\* up after the script timeout and the command raises a TimeoutException
wait_animation_frame ==
    /\ pc = "in_stage" /\ stageIdx = 5
    /\ \/ \E d \in {0, FastPoll} :
             /\ now + d <= end_time
             /\ now' = now + d
             /\ StageReturns
       \/ /\ now' = end_time
          /\ RaiseFromWait(Exc("TimeoutException", "script timeout", ""))
          /\ UNCHANGED <<stageIdx, stagesOk>>
    /\ UNCHANGED <<coordVars, threadVars, stealthVars, clientCloseErrors,
                   endpoint, _timeout, _cookies,
                   _proxy, _driver, _client, pageVars, deadline, outVars,
                   ops, startedLate, zeroSince, quietBroken, created, enginesLaunched,
                   quitCalls, clientsCreated, clientCloseCalls, closeCalls,
                   closeRaised>>

\* the page, in an engine that is gone or has not navigated
NoPage ==
    /\ readyState' = "none"
    /\ loadEventEnd' = 0
    /\ netHooked' = FALSE
    /\ inflight' = 0
    /\ mutObs' = FALSE
    /\ lastMut' = 0

\* the engine dies under the current step and its script evaluation fails:
\* except Exception logs the error and raises it again
ScriptFails ==
    /\ pc = "in_stage"
    /\ RaiseFromWait(Exc("WebDriverException", "command failed", ""))
    /\ NoPage
    /\ QuietHistoryReset
    /\ UNCHANGED <<coordVars, threadVars, stealthVars, clientCloseErrors,
                   endpoint, _timeout, _cookies, _proxy, _driver, _client,
                   now, deadline, stageIdx, outVars, ops, stagesOk,
                   startedLate, created, enginesLaunched, quitCalls,
                   clientsCreated, clientCloseCalls, closeCalls, closeRaised>>

(***************************************************************************)
(* Extraction, teardown and the handler's answer                           *)
(***************************************************************************)
\* browser.html() / browser.screenshot_png(), the last statement of the with body
Extract(ok) ==
    /\ pc = "extract"
    /\ ops' = Append(ops, Op("extract", endpoint))
    /\ IF ok
       THEN /\ artifact' = endpoint
            /\ primary' = "artifact"
            /\ UNCHANGED pending
       ELSE /\ pending' = Exc("WebDriverException", "command failed", "")
            /\ primary' = "WebDriverException"
            /\ UNCHANGED artifact
    /\ pc' = "exit"
    /\ UNCHANGED <<coordVars, threadVars, stealthVars, clientCloseErrors,
                   endpoint, _timeout, _cookies, _proxy, _driver, _client,
                   pageVars, now, deadline, stageIdx, phase, end_time, netTimeout,
                   quiet_start, response, stagesOk, startedLate, zeroSince, quietBroken,
                   created, enginesLaunched, quitCalls, clientsCreated,
                   clientCloseCalls, closeCalls, closeRaised>>

\* what driver.quit() and the proxy client's close() can do
QuitOutcomes == {"ok", "WebDriverException", "OSError"}
ClientCloseOutcomes == {"ok", "raises"}

\* ProxyClient.close: close the client once; an error (p = "raises") is
\* logged, never raised, and the client is marked released all the same
ProxyClientClose(client, p) ==
    [_client |-> None,
     calls |-> IF client # None THEN 1 ELSE 0,
     logged |-> client # None /\ p = "raises"]

\* which errors of driver.quit() close() catches and logs
QuitErrorCaught(q) == q = "WebDriverException"

\* a slip of close(): the engine handle is cleared only when quit() returns
close_keeps_driver_on_error(proxy, client, driver, p, q) ==
    LET pr == IF proxy # None THEN ProxyClientClose(client, p)
              ELSE [_client |-> client, calls |-> 0, logged |-> FALSE]
    IN [_proxy |-> None,
        _client |-> pr._client,
        clientCalls |-> pr.calls,
        clientErrors |-> IF pr.logged THEN 1 ELSE 0,
        _driver |-> IF driver = "unset" THEN "unset"
                    ELSE IF driver = "set" /\ q # "ok" THEN "set" ELSE None,
        quits |-> IF driver = "set" THEN 1 ELSE 0,
        exc |-> IF driver = "unset"
                THEN Exc("AttributeError", "no attribute _driver", "")
                ELSE IF driver = "set" /\ q # "ok" /\ ~QuitErrorCaught(q)
                THEN Exc(q, "quit failed", "")
                ELSE NoExc]

\* SeleniumBrowser.close, with what the client's close (p) and the engine's
\* quit (q) do: [_proxy, _client, _driver, clientCalls, clientErrors, quits, exc]
close(proxy, client, driver, p, q) ==
    LET pr == IF proxy # None THEN ProxyClientClose(client, p)
              ELSE [_client |-> client, calls |-> 0, logged |-> FALSE]
    IN [_proxy |-> None,
        _client |-> pr._client,
        clientCalls |-> pr.calls,
        clientErrors |-> IF pr.logged THEN 1 ELSE 0,
        _driver |-> IF driver = "unset" THEN "unset" ELSE None,
        quits |-> IF driver = "set" THEN 1 ELSE 0,
        exc |-> IF driver = "unset"
                THEN Exc("AttributeError", "no attribute _driver", "")
                ELSE IF driver = "set" /\ q # "ok" /\ ~QuitErrorCaught(q)
                THEN Exc(q, "quit failed", "")
                ELSE NoExc]

\* the state a call of close() leaves, and the history of the calls
Closed(r) ==
    /\ _proxy' = r._proxy
    /\ _client' = r._client
    /\ _driver' = r._driver
    /\ clientCloseCalls' = clientCloseCalls + r.clientCalls
    /\ clientCloseErrors' = clientCloseErrors + r.clientErrors
    /\ quitCalls' = quitCalls + r.quits
    /\ closeCalls' = closeCalls + 1
    /\ closeRaised' = closeRaised + (IF r.exc = NoExc THEN 0 ELSE 1)
    \* quit() ends the engine, and the page with it
    /\ IF r.quits > 0 THEN NoPage ELSE UNCHANGED pageVars

\* the handler's except clauses and the application's error handlers
Respond(e, art) ==
    IF e = NoExc THEN [status |-> "ok", name |-> "", text |-> art, step |-> ""]
    ELSE IF e.type = "TimeoutException"
    THEN InternalError("Page took too much time to load", "")
    ELSE generic(e)

\* __exit__ at the end of the with block (close(); return False), then the
\* handler's except clauses and its answer
ExitScope(p, q) ==
    /\ pc = "exit"
    /\ (_driver # "set") => q = "ok"
    /\ (_proxy = None \/ _client = None) => p = "ok"
    /\ LET r == close(_proxy, _client, _driver, p, q)
           e == IF r.exc # NoExc THEN r.exc ELSE pending
       IN /\ Closed(r)
          /\ response' = Respond(e, artifact)
    /\ ops' = Append(ops, Op("close", ""))
    /\ pc' = "responded"
    /\ QuietHistoryReset
    /\ UNCHANGED <<coordVars, threadVars, stealthVars,
                   endpoint, _timeout, _cookies, waitVars,
                   artifact, stagesOk, startedLate, created,
                   enginesLaunched, clientsCreated, primary>>

\* __del__ of the session object once the handler has let go of it: close(),
\* whose error, if any, the interpreter drops
Finalizer(p, q) ==
    /\ pc = "responded"
    /\ (_driver # "set") => q = "ok"
    /\ (_proxy = None \/ _client = None) => p = "ok"
    /\ Closed(close(_proxy, _client, _driver, p, q))
    /\ pc' = "finalized"
    /\ UNCHANGED <<coordVars, threadVars, stealthVars,
                   endpoint, _timeout, _cookies, waitVars,
                   outVars, ops, stagesOk, startedLate, zeroSince, quietBroken, created,
                   enginesLaunched, clientsCreated, primary>>

\* a further close() on the session
CloseAgain(p, q) ==
    /\ pc = "finalized"
    /\ closeCalls < MaxCloses + 2
    /\ (_driver # "set") => q = "ok"
    /\ (_proxy = None \/ _client = None) => p = "ok"
    /\ Closed(close(_proxy, _client, _driver, p, q))
    /\ UNCHANGED <<coordVars, threadVars, stealthVars,
                   pc, endpoint, _timeout, _cookies, waitVars,
                   outVars, ops, stagesOk, startedLate, zeroSince, quietBroken, created,
                   enginesLaunched, clientsCreated, primary>>

(***************************************************************************)
(* The specification                                                       *)
(***************************************************************************)
Next ==
    \/ \E c \in Coordinators : ProxyServerInit(c)
    \/ \E c \in Coordinators : ProxyServerClose(c)
    \/ \E ep \in {"html", "screenshot"}, stealth \in BOOLEAN, headers \in HeaderMaps,
          cookies \in CookieLists, timeout \in Timeouts, fail \in CreateFailures :
          NewSession(ep, stealth, headers, cookies, timeout, fail)
    \/ \E url \in Urls, failAt \in 0..(MaxCookies + 2),
          ftype \in {"WebDriverException", "TimeoutException"} :
          Get(url, failAt, ftype)
    \/ PageReady
    \/ PageLoadEvent
    \/ PageFetchStart
    \/ PageFetchEnd
    \/ PageMutation
    \/ StageCheck
    \/ wait_ready_event
    \/ wait_lazyload
    \/ wait_network_idle_zero
    \/ wait_network_idle_quiet
    \/ wait_dom_quiet
    \/ wait_animation_frame
    \/ ScriptFails
    \/ \E ok \in BOOLEAN : Extract(ok)
    \/ \E p \in ClientCloseOutcomes, q \in QuitOutcomes : ExitScope(p, q)
    \/ \E p \in ClientCloseOutcomes, q \in QuitOutcomes : Finalizer(p, q)
    \/ \E p \in ClientCloseOutcomes, q \in QuitOutcomes : CloseAgain(p, q)

Spec == Init /\ [][Next]_vars

(***************************************************************************)
(* proxy_utils.py under concurrent callers.  Each statement of __init__,   *)
(* new_client and close is a step of the calling thread, and the steps of  *)
(* different threads interleave.  The session variables stay at rest.      *)
(***************************************************************************)
restVars == <<serverStops, sessVars, pageVars, waitVars, outVars, histVars,
              clientCloseErrors, stealthVars>>

\* the thread is inside a call
Mid(t) == threads[t].pc \notin {"idle", "done"}
\* the thread may begin a call
Free(t) == ~Mid(t) /\ threads[t].calls < MaxCalls

\* thread t takes a step that leaves it as rec
Step(t, rec) ==
    /\ threads' = [threads EXCEPT ![t] = rec]
    /\ overlapped' = (overlapped \/ \E u \in Threads \ {t} : Mid(u))

\* the call returns or raises: what it did is kept until the next call
Return(r, result, ref) ==
    [r EXCEPT !.pc = "done", !.result = result, !.ref = ref, !.calls = r.calls + 1]

\* the thread begins operation op on ProxyServer c and stands at pc
Begin(t, op, c, h0, at) ==
    [pc |-> at, op |-> op, c |-> c, h0 |-> h0, touched |-> FALSE,
     result |-> None, ref |-> None, calls |-> threads[t].calls]

\* ProxyServer(): self._server = Server(...)
InitServer(t, c) ==
    /\ Free(t)
    /\ _server[c] = "unborn"
    /\ _server' = [_server EXCEPT ![c] = "set"]
    /\ Step(t, Begin(t, "__init__", c, None, "start"))
    /\ UNCHANGED <<_proxy_server, process, stops, held, restVars>>

\* self._server.start(): the proxy process comes up, or start() raises and
\* the constructor with it, leaving an object nobody holds
InitStart(t, ok) ==
    /\ threads[t].pc = "start"
    /\ LET r == threads[t]
       IN IF ok
          THEN /\ process' = [process EXCEPT ![r.c] = "running"]
               /\ Step(t, [r EXCEPT !.pc = "register"])
          ELSE /\ process' = [process EXCEPT ![r.c] = "failed"]
               /\ Step(t, Return(r, "raised", get_proxy_server))
    /\ UNCHANGED <<_proxy_server, _server, stops, held, restVars>>

\* global _proxy_server; _proxy_server = self
InitRegister(t) ==
    /\ threads[t].pc = "register"
    /\ LET r == threads[t]
       IN /\ _proxy_server' = r.c
          /\ held' = held \cup {r.c}
          /\ Step(t, Return(r, "returned", r.c))
    /\ UNCHANGED <<_server, process, stops, restVars>>

\* the objects close() can be called on: those a constructor returned, and,
\* once, by its finalizer, the one whose constructor raised
Closable(c) ==
    \/ c \in held
    \/ /\ process[c] = "failed"
       /\ _server[c] = "set"
       /\ \A u \in Threads : Mid(u) => threads[u].c # c

\* ProxyServer.close: if self._server:
CloseCheck(t, c) ==
    /\ Free(t)
    /\ Closable(c)
    /\ IF _server[c] = "set"
       THEN Step(t, Begin(t, "close", c, _server[c], "stop"))
       ELSE Step(t, Return(Begin(t, "close", c, _server[c], "done"),
                           "returned", get_proxy_server))
    /\ UNCHANGED <<_proxy_server, _server, process, stops, held, restVars>>

\* what Server.stop() can do
StopOutcomes == {"ok", "raises"}

\* the proxy process after self._server.stop() with outcome s
Stopped(state, s) == IF s = "ok" /\ state = "running" THEN "stopped" ELSE state

\* a slip of close(): an error of stop() leaves the call
CloseStop_lets_error_out(t, s) ==
    /\ threads[t].pc = "stop"
    /\ LET r == threads[t]
       IN /\ process[r.c] = "failed" => s = "raises"
          /\ IF _server[r.c] = None
             THEN /\ s = "ok"
                  /\ Step(t, [r EXCEPT !.pc = "finally"])
                  /\ UNCHANGED <<stops, process>>
             ELSE /\ stops' = [stops EXCEPT ![r.c] = @ + 1]
                  /\ process' = [process EXCEPT ![r.c] = Stopped(@, s)]
                  /\ IF s = "ok"
                     THEN Step(t, [r EXCEPT !.pc = "finally", !.touched = TRUE])
                     ELSE Step(t, Return([r EXCEPT !.touched = TRUE], "raised",
                                         get_proxy_server))
    /\ UNCHANGED <<_proxy_server, _server, held, restVars>>

\* try: self._server.stop() except Exception: log.  The handle is read
\* again: cleared in between, the call is an AttributeError, caught as well
CloseStop(t, s) ==
    /\ threads[t].pc = "stop"
    /\ LET r == threads[t]
       IN /\ process[r.c] = "failed" => s = "raises"
          /\ IF _server[r.c] = None
             THEN /\ s = "ok"
                  /\ Step(t, [r EXCEPT !.pc = "finally"])
                  /\ UNCHANGED <<stops, process>>
             ELSE /\ stops' = [stops EXCEPT ![r.c] = @ + 1]
                  /\ process' = [process EXCEPT ![r.c] = Stopped(@, s)]
                  /\ Step(t, [r EXCEPT !.pc = "finally", !.touched = TRUE])
    /\ UNCHANGED <<_proxy_server, _server, held, restVars>>

\* finally: self._server = None
CloseClearHandle(t) ==
    /\ threads[t].pc = "finally"
    /\ _server' = [_server EXCEPT ![threads[t].c] = None]
    /\ Step(t, [threads[t] EXCEPT !.pc = "clear"])
    /\ UNCHANGED <<_proxy_server, process, stops, held, restVars>>

\* finally: _proxy_server = None
CloseClearGlobal(t) ==
    /\ threads[t].pc = "clear"
    /\ _proxy_server' = None
    /\ Step(t, Return(threads[t], "returned", None))
    /\ UNCHANGED <<_server, process, stops, held, restVars>>

\* _create_driver: proxy_server = get_proxy_server(); if not proxy_server: raise
Lookup(t) ==
    /\ Free(t)
    /\ IF get_proxy_server = None
       THEN Step(t, Return(Begin(t, "lookup", None, None, "done"),
                           "proxy server not available", None))
       ELSE Step(t, Begin(t, "new_client", get_proxy_server, None, "looked"))
    /\ UNCHANGED <<_proxy_server, _server, process, stops, held, restVars>>

\* a slip of new_client(): the handle is not looked at before it is used
NewClientCheck_no_check(t, c) ==
    /\ \/ Free(t) /\ c \in held
       \/ threads[t].pc = "looked" /\ threads[t].c = c
    /\ Step(t, Begin(t, "new_client", c, _server[c], "create"))
    /\ UNCHANGED <<_proxy_server, _server, process, stops, held, restVars>>

\* new_client: if not self._server: raise RuntimeError, on the coordinator
\* the lookup returned or on one the caller holds
NewClientCheck(t, c) ==
    /\ \/ Free(t) /\ c \in held
       \/ threads[t].pc = "looked" /\ threads[t].c = c
    /\ IF _server[c] = "set"
       THEN Step(t, Begin(t, "new_client", c, _server[c], "create"))
       ELSE Step(t, Return(Begin(t, "new_client", c, _server[c], "done"),
                           "RuntimeError", get_proxy_server))
    /\ UNCHANGED <<_proxy_server, _server, process, stops, held, restVars>>

\* return ProxyClient(self._server.create_proxy()): the handle is read
\* again, and the proxy process is asked for a client
NewClientCreate(t) ==
    /\ threads[t].pc = "create"
    /\ LET r == threads[t]
       IN Step(t, Return(r, IF _server[r.c] # "set" THEN "AttributeError"
                            ELSE IF process[r.c] = "running" THEN "client"
                            ELSE "ConnectionError",
                         get_proxy_server))
    /\ UNCHANGED <<_proxy_server, _server, process, stops, held, restVars>>

CoordNext ==
    \/ \E t \in Threads, c \in ProxyServers : InitServer(t, c)
    \/ \E t \in Threads, ok \in BOOLEAN : InitStart(t, ok)
    \/ \E t \in Threads : InitRegister(t)
    \/ \E t \in Threads, c \in ProxyServers : CloseCheck(t, c)
    \/ \E t \in Threads, s \in StopOutcomes : CloseStop(t, s)
    \/ \E t \in Threads : CloseClearHandle(t)
    \/ \E t \in Threads : CloseClearGlobal(t)
    \/ \E t \in Threads : Lookup(t)
    \/ \E t \in Threads, c \in ProxyServers : NewClientCheck(t, c)
    \/ \E t \in Threads : NewClientCreate(t)

CoordSpec == Init /\ [][CoordNext]_vars

(***************************************************************************)
(* StealthChrome._create_driver: the identity the engine is given, for     *)
(* every header map a request can carry.  A header map is a function from  *)
(* the keys it has to their values; no headers is the map without keys.    *)
(***************************************************************************)
otherVars == <<coordVars, threadVars, sessVars, pageVars, waitVars, outVars, histVars,
               clientCloseErrors>>

\* the header keys of a request's header map, and the values of each
HeaderKeys == {"User-Agent", "user-agent", "Accept-Language", "ACCEPT-LANGUAGE",
               "X-Test"}
UserAgents == {"Mozilla/5.0 (Windows NT 10.0; Win64; x64) Chrome/120",
               "Mozilla/5.0 (X11; Linux x86_64) Chrome/120"}
AcceptLanguages == {"de-DE,de;q=0.9", "pt-BR,pt;q=0.9,en-US;q=0.8,en;q=0.7"}
ValuesOf(k) ==
    IF k \in {"User-Agent", "user-agent"} THEN UserAgents
    ELSE IF k \in {"Accept-Language", "ACCEPT-LANGUAGE"} THEN AcceptLanguages
    ELSE {"1"}
HeaderDicts ==
    UNION {{h \in [K -> UserAgents \cup AcceptLanguages \cup {"1"}] :
               \A k \in K : h[k] \in ValuesOf(k)} : K \in SUBSET HeaderKeys}

\* what driver.execute_script("return navigator.userAgent") returns
EngineUserAgent == "Mozilla/5.0 (X11; Linux x86_64) HeadlessChrome/120"
\* the acceptLanguage _create_driver falls back to
DefaultAcceptLanguage == "pt-BR,pt;q=0.9,en-US;q=0.8,en;q=0.7"

\* dict.get(key, None)
Get_(h, key) == IF key \in DOMAIN h THEN h[key] ELSE None
\* the truth value Python gives a header map and a header value
TruthyDict(h) == DOMAIN h # {}
Truthy(v) == v \notin {None, ""}

\* StealthChrome(headers, ...): the session keeps the map and launches
\* the engine
StealthCreate(headers) ==
    /\ spc = "idle"
    /\ _headers' = headers
    /\ spc' = "launched"
    /\ UNCHANGED <<user_agent, accept_language, cdp_override_args, navigator,
                   cdp_log, otherVars>>

\* user_agent, accept_language = None, None; if self._headers: .get(...)
ReadHeaders ==
    /\ spc = "launched"
    /\ user_agent' = IF TruthyDict(_headers) THEN Get_(_headers, "User-Agent")
                     ELSE None
    /\ accept_language' = IF TruthyDict(_headers)
                          THEN Get_(_headers, "Accept-Language") ELSE None
    /\ spc' = "read"
    /\ UNCHANGED <<_headers, cdp_override_args, navigator, cdp_log, otherVars>>

\* cdp_override_args = {...}; if not user_agent: platform
BuildOverrides ==
    /\ spc = "read"
    /\ cdp_override_args' =
          [userAgent |-> IF Truthy(user_agent) THEN user_agent ELSE EngineUserAgent,
           acceptLanguage |-> IF Truthy(accept_language) THEN accept_language
                              ELSE DefaultAcceptLanguage,
           platform |-> IF ~Truthy(user_agent) THEN "Linux x86_64" ELSE None]
    /\ spc' = "built"
    /\ UNCHANGED <<_headers, user_agent, accept_language, navigator, cdp_log,
                   otherVars>>

\* the four execute_cdp_cmd calls: the evasion script defines the page's
\* navigator.languages and navigator.platform, the override carries
\* cdp_override_args
IssueCommands ==
    /\ spc = "built"
    /\ navigator' = [languages |-> <<"pt-BR", "pt", "en-US", "en">>,
                     platform |-> "Linux x86_64"]
    /\ cdp_log' = CdpCommands
    /\ spc' = "done"
    /\ UNCHANGED <<_headers, user_agent, accept_language, cdp_override_args,
                   otherVars>>

StealthNext ==
    \/ \E headers \in HeaderDicts : StealthCreate(headers)
    \/ ReadHeaders
    \/ BuildOverrides
    \/ IssueCommands

StealthSpec == Init /\ [][StealthNext]_vars

(***************************************************************************)
(* Properties                                                              *)
(***************************************************************************)
Range(seq) == {seq[i] : i \in 1..Len(seq)}
OpsOf(kinds) == SelectSeq(ops, LAMBDA o : o.op \in kinds)
StageNames == [i \in 1..Len(OpsOf({"stage"})) |-> OpsOf({"stage"})[i].arg]
Answered == pc \in {"responded", "finalized"}
\* the exception WebDriverWait.until raises when a step's own wait runs out
WaitTimeout == Exc("TimeoutException", "", "")
ScriptTimeout == Exc("TimeoutException", "script timeout", "")
Polling == pc = "in_stage" /\ phase \in {"poll", "zero", "quiet"}

\* C1: every step of a readiness wait draws on the one deadline fixed when
\* the wait was invoked: no step evaluates its condition again after that
\* deadline, both waits of the network-idle step included, and a wait that
\* fails with a timeout has failed by the deadline, give or take the one
\* poll interval at which a wait looks at the clock.
C1_OneSharedDeadline ==
    /\ Polling => now <= deadline
    /\ (pc = "exit" /\ stageIdx >= 1 /\ pending.type = "TimeoutException")
           => now <= deadline + DefaultPoll

\* C2: within one session the operations come in the order create, navigate
\* (and cookies), the steps of the readiness wait in the order of the list,
\* extract, teardown; step k starts only after steps 1..k-1 returned; when a
\* step fails no later step runs and nothing is extracted; and the teardown
\* runs all the same.
OpRank(o) ==
    CASE o.op \in {"new_client", "add_headers", "add_argument", "launch", "cdp"} -> 1
      [] o.op \in {"navigate", "setCookie"} -> 2
      [] o.op = "stage" -> 3
      [] o.op = "extract" -> 4
      [] OTHER -> 5
C2_StrictOrder ==
    /\ \A i, j \in 1..Len(ops) : i < j => OpRank(ops[i]) <= OpRank(ops[j])
    /\ Len(StageNames) <= Len(steps)
    /\ StageNames = SubSeq(steps, 1, Len(StageNames))
    /\ stagesOk <= Len(StageNames) /\ Len(StageNames) <= stagesOk + 1
    /\ Len(OpsOf({"extract"})) <= 1
    /\ Len(OpsOf({"extract"})) = 1 => stagesOk = Len(steps)
    /\ artifact # None => stagesOk = Len(steps) /\ Len(OpsOf({"extract"})) = 1
    /\ (stageIdx >= 1 /\ stagesOk < Len(steps) /\ pc \notin {"wait", "in_stage"})
           => /\ pending # NoExc
              /\ artifact = None
              /\ OpsOf({"extract"}) = <<>>
              /\ Len(StageNames) \in {stagesOk, stagesOk + 1}
    /\ (Answered /\ OpsOf({"navigate"}) # <<>>)
           => /\ closeCalls >= 1
              /\ Len(OpsOf({"close"})) = 1
              /\ ops[Len(ops)].op = "close"

\* the second step's own wait timed out: the third never started, nothing
\* was extracted, the session was torn down
C2_Witness ==
    /\ pc = "responded"
    /\ pending = WaitTimeout
    /\ stageIdx = 2
    /\ StageNames = <<"readyState", "loadEventEnd">>

\* C3: when a step's own wait runs out of budget, the request receives a
\* timeout failure that names the step which did not complete, and never a
\* success.
C3_TimeoutNamesStage ==
    (Answered /\ stageIdx >= 1 /\ closeRaised = 0
              /\ pending \in {WaitTimeout, ScriptTimeout})
        => /\ response.status = "error"
           /\ response.step = steps[stageIdx]

\* C4: if nothing remains of the budget when a step is about to begin, its
\* wait function is not called and the wait fails with a timeout whose
\* message names that step.
C4_NoBudgetNoCall ==
    /\ ~startedLate
    /\ pending.text = "Timeout before step"
           => /\ pending.type = "TimeoutException"
              /\ pending.step = steps[stageIdx]
              /\ now >= deadline
              /\ Op("stage", steps[stageIdx]) \notin Range(ops)
              /\ stagesOk = stageIdx - 1

\* the DOM went quiet exactly as the budget ran out, and the next-paint
\* step found nothing left of it
C4_Witness ==
    /\ pc = "exit"
    /\ pending = Exc("TimeoutException", "Timeout before step", "next paint")
    /\ stagesOk = 4
    /\ now = deadline

\* C5: the network-idle step returns only when every evaluation over the
\* last 600 ms (IdleTicks) read a counter of zero, so a busy counter read
\* after 500 ms of quiet makes the window start afresh; and a window of 600
\* ms of zero readings reached within the budget makes the step return
\* rather than time out.
C5_QuietWindow ==
    /\ (pc = "wait" /\ stageIdx = 4)
           => zeroSince # NoTime /\ now - zeroSince >= IdleTicks
    /\ (pc = "exit" /\ stageIdx = 3 /\ pending = WaitTimeout /\ zeroSince # NoTime)
           => (now - FastPoll) - zeroSince < IdleTicks

\* the step returned although a busy counter was read after 500 ms of quiet
C5_Witness ==
    /\ pc = "wait"
    /\ stageIdx = 4
    /\ quietBroken
    /\ now - zeroSince >= IdleTicks

\* C6: close() called any number of times in a row on a session does what one
\* call does: no call raises, the engine's quit and the proxy client's close
\* are each invoked at most once, and from the first call on both the engine
\* handle and the proxy client are marked released.
C6_CloseIdempotent ==
    _driver # "unset"
        => /\ closeRaised = 0
           /\ quitCalls <= 1
           /\ clientCloseCalls <= 1
           /\ closeCalls >= 1 => (_driver = None /\ _proxy = None)

\* C7: however a request ends, every engine that was launched has been quit
\* and every proxy client that was created has been closed once the request
\* is over and the session object has been finalized.
C7_AllReleased ==
    pc = "finalized"
        => /\ quitCalls >= enginesLaunched
           /\ clientCloseCalls >= clientsCreated

\* C8: an error of the engine's quit or of the proxy client's close, of
\* whatever kind, is logged and swallowed: close() and the scope exit raise
\* nothing, a request whose body succeeded returns its artifact, and a
\* request whose body failed reports that failure.
C8_TeardownErrorsSwallowed ==
    /\ (closeRaised > 0) => _driver = "unset"
    /\ (Answered /\ primary = "artifact")
           => response.status = "ok" /\ response.text = artifact
    /\ (Answered /\ _driver # "unset" /\ primary \notin {None, "artifact"})
           => response = Respond(pending, artifact)

\* C9: a session asked for with a non-empty header map while the coordinator
\* is absent or stopped is not created: the request fails with the
\* resource-unavailable error, and no engine was launched and no proxy client
\* created.
C9_FailsBeforeLaunch ==
    (created.headers /\ created.coordinator = "unavailable")
        => /\ Answered
           /\ response.status = "error"
           /\ response.text \in {"proxy server not available",
                                 "Proxy server not initialized or closed"}
           /\ enginesLaunched = 0
           /\ clientsCreated = 0
           /\ OpsOf({"launch", "new_client", "cdp"}) = <<>>
           /\ _driver = "unset" /\ _proxy = None

\* a stealth session with headers, asked for after the coordinator stopped
C9_Witness ==
    /\ created.headers /\ created.stealth
    /\ created.coordinator = "unavailable"
    /\ \E c \in Coordinators : _server[c] = None
    /\ response.text = "proxy server not available"

\* C10: when the readiness wait begins, get(url) has sent, with a non-empty
\* cookie list, navigate(url), one setCookie per cookie in the order of the
\* list and navigate(url) again to the same URL; with no cookies, one
\* navigate(url) and nothing else.
C10_NavigateCookiesNavigate ==
    (pc = "wait" \/ StageNames # <<>>)
        => \E u \in Urls :
              OpsOf({"navigate", "setCookie"}) =
                 IF _cookies.present /\ _cookies.list # <<>>
                 THEN <<Op("navigate", u)>>
                      \o [i \in 1..Len(_cookies.list) |->
                             Op("setCookie", _cookies.list[i])]
                      \o <<Op("navigate", u)>>
                 ELSE <<Op("navigate", u)>>

\* the wait is about to begin after two cookies were set
C10_Witness ==
    /\ pc = "wait" /\ stageIdx = 1
    /\ Len(_cookies.list) >= 2
    /\ Len(OpsOf({"navigate"})) = 2
    /\ Len(OpsOf({"setCookie"})) = Len(_cookies.list)

\* the places of the operations of the given kinds in the session's log
IndexOf(kinds) == {i \in 1..Len(ops) : ops[i].op \in kinds}

\* C11: a session created with a non-empty header map while the coordinator
\* runs has created exactly one proxy client, installed the caller's header
\* rules on it before the engine was launched, and launched the engine with
\* a proxy-server argument equal to that client's address; a session created
\* without headers has no proxy client and no proxy-server argument.
C11_ProxyClientPerSession ==
    /\ (created.headers /\ created.coordinator = "running"
           /\ OpsOf({"launch"}) # <<>>)
           => /\ clientsCreated = 1
              /\ OpsOf({"new_client"}) = <<Op("new_client", "")>>
              /\ OpsOf({"add_headers"}) = <<Op("add_headers", "X-Test:1")>>
              /\ OpsOf({"add_argument"}) = <<Op("add_argument", get_address("client"))>>
              /\ \A i \in IndexOf({"new_client"}), j \in IndexOf({"add_headers"}),
                    k \in IndexOf({"add_argument"}), l \in IndexOf({"launch"}) :
                    i < j /\ j < k /\ k < l
    /\ (pc # "idle" /\ ~created.headers)
           => /\ clientsCreated = 0
              /\ _proxy = None
              /\ OpsOf({"new_client", "add_headers", "add_argument"}) = <<>>

\* a plain session with the header X-Test:1 is navigating through its proxy
C11_Witness ==
    /\ pc = "wait"
    /\ created.headers /\ ~created.stealth
    /\ _proxy = "client"
    /\ Op("add_argument", "localhost:8081") \in Range(ops)

\* thread t is back from a call of op
Done(t, op) == threads[t].pc = "done" /\ threads[t].op = op

\* C12: with calls made one after another, new_client() on a started
\* coordinator returns a proxy client, and on a coordinator whose handle is
\* gone (after close) it fails with the "not initialized" RuntimeError and
\* asks the proxy process for nothing.
C12_NewClientOrNotInitialized ==
    ~overlapped =>
        \A t \in Threads : Done(t, "new_client") =>
            /\ threads[t].h0 = "set" => threads[t].result = "client"
            /\ threads[t].h0 # "set" => threads[t].result = "RuntimeError"

\* new_client() called on a coordinator that was started and then closed
C12_Witness ==
    /\ ~overlapped
    /\ \E t \in Threads :
          /\ Done(t, "new_client")
          /\ threads[t].result = "RuntimeError"
          /\ threads[t].c \in held
          /\ stops[threads[t].c] = 1

\* C13: with calls made one after another, the first close() of a
\* coordinator calls stop() on the proxy process and a later one does not
\* touch it; no call raises, stop() failing or not; after the first call the
\* handle is cleared and get_proxy_server() returns nothing.
C13_StopIdempotent ==
    ~overlapped =>
        \A t \in Threads : Done(t, "close") =>
            /\ threads[t].result = "returned"
            /\ threads[t].touched <=> threads[t].h0 = "set"
            /\ threads[t].h0 = "set" => threads[t].ref = None
            /\ _server[threads[t].c] = None
            /\ stops[threads[t].c] <= 1

\* a second close() returned without touching a process whose stop() had
\* failed in the first
C13_Witness ==
    /\ ~overlapped
    /\ \E t \in Threads :
          /\ Done(t, "close")
          /\ threads[t].h0 = None
          /\ ~threads[t].touched
          /\ stops[threads[t].c] = 1
          /\ process[threads[t].c] = "running"

\* C14: under any interleaving, a new_client() call returns a client of the
\* running proxy process or fails with the "not initialized" RuntimeError,
\* and in no other way.
C14_NewClientUnderStop ==
    \A t \in Threads : Done(t, "new_client") =>
        threads[t].result \in {"client", "RuntimeError"}

\* C15: under any interleaving of close() calls on one coordinator, stop()
\* reaches the proxy process once, no call raises, and a call that returned
\* leaves the handle cleared.
C15_StoppedOnce ==
    /\ \A c \in ProxyServers : stops[c] <= 1
    /\ \A t \in Threads : Done(t, "close") =>
          /\ threads[t].result = "returned"
          /\ _server[threads[t].c] = None

\* the coordinators that were started and not closed
Running == {c \in held : _server[c] = "set"}

\* C16: after any sequence of constructions and close() calls made one
\* after another, at most one coordinator is running, and
\* get_proxy_server() designates a coordinator exactly when one is running,
\* and then that one.
C16_OneCoordinator ==
    (~overlapped /\ \A t \in Threads : ~Mid(t)) =>
        /\ Cardinality(Running) <= 1
        /\ get_proxy_server # None <=> Running # {}
        /\ get_proxy_server # None => get_proxy_server \in Running

\* C20: at every state, the steps inside a close() included,
\* get_proxy_server() returns nothing or a coordinator whose handle is set.
C20_NoStaleReference ==
    get_proxy_server # None => _server[get_proxy_server] = "set"

\* the places of command cmd in the session's log
Issued(cmd) == {i \in 1..Len(ops) : ops[i] = Op("cdp", cmd)}

\* C18: a stealth session that navigates has, before its first navigation,
\* registered the evasion script for every new document and issued the
\* timezone and the user-agent/accept-language overrides, each once, and
\* enabled the network-event instrumentation before the user-agent
\* override; a plain session issues none of these commands.
C18_EvasionBeforeNavigation ==
    /\ (created.stealth /\ OpsOf({"navigate"}) # <<>>)
           => /\ \A cmd \in {"Page.addScriptToEvaluateOnNewDocument",
                              "Emulation.setTimezoneOverride", "Network.enable",
                              "Network.setUserAgentOverride"} :
                    /\ Cardinality(Issued(cmd)) = 1
                    /\ \A i \in Issued(cmd), j \in IndexOf({"navigate"}) : i < j
              /\ \A i \in Issued("Network.enable"),
                    j \in Issued("Network.setUserAgentOverride") : i < j
    /\ (pc # "idle" /\ ~created.stealth) => OpsOf({"cdp"}) = <<>>

\* a stealth session has navigated and its readiness wait is about to begin
C18_Witness ==
    /\ pc = "wait" /\ stageIdx = 1
    /\ created.stealth
    /\ Len(OpsOf({"cdp"})) = 4
    /\ OpsOf({"navigate"}) # <<>>

\* the language list a browser shows a page for an accept-language value,
\* and the platform a user-agent string speaks of
LanguagesOf(al) ==
    IF al = "de-DE,de;q=0.9" THEN <<"de-DE", "de">>
    ELSE <<"pt-BR", "pt", "en-US", "en">>
PlatformOf(ua) ==
    IF ua = "Mozilla/5.0 (Windows NT 10.0; Win64; x64) Chrome/120" THEN "Win32"
    ELSE "Linux x86_64"

\* C17: once a stealth session is set up, the identity its evasion script
\* shows the page (navigator.languages, navigator.platform) agrees with the
\* protocol-level overrides: the accept-language override lists the same
\* languages, and the user-agent and the platform override name the same
\* platform.
C17_IdentityAgrees ==
    spc = "done" =>
        /\ LanguagesOf(cdp_override_args.acceptLanguage) = navigator.languages
        /\ PlatformOf(cdp_override_args.userAgent) = navigator.platform
        /\ cdp_override_args.platform \in {None, navigator.platform}

\* a header name without its letter case, and the values a header map
\* carries for it under any casing
Lower(k) ==
    IF k \in {"User-Agent", "user-agent"} THEN "user-agent"
    ELSE IF k \in {"Accept-Language", "ACCEPT-LANGUAGE"} THEN "accept-language"
    ELSE "x-test"
Supplied(h, name) == {h[k] : k \in {x \in DOMAIN h : Lower(x) = name}}

\* C19: the user-agent and accept-language overrides of a stealth session
\* carry the caller's header value whenever the header map has that header
\* under any letter case of its key, and the default only when it has it
\* under none.
C19_HeaderKeysAnyCase ==
    spc = "done" =>
        /\ IF Supplied(_headers, "user-agent") # {}
           THEN cdp_override_args.userAgent \in Supplied(_headers, "user-agent")
           ELSE cdp_override_args.userAgent = EngineUserAgent
        /\ IF Supplied(_headers, "accept-language") # {}
           THEN cdp_override_args.acceptLanguage
                    \in Supplied(_headers, "accept-language")
           ELSE cdp_override_args.acceptLanguage = DefaultAcceptLanguage

\* C21: once close() has run on a session that holds its engine, the proxy
\* client (if one was created) has been asked to close and the engine to
\* quit, each exactly once however many times close() ran and whichever of
\* the two failed, and both handles are marked released.
C21_BothReleasedWhateverFails ==
    (closeCalls >= 1 /\ _driver # "unset")
        => /\ _proxy = None
           /\ _client = None
           /\ _driver = None
           /\ quitCalls = 1
           /\ clientCloseCalls = clientsCreated
           /\ clientCloseErrors <= clientCloseCalls

\* the proxy client's close failed, the engine's quit was invoked all the
\* same and raised out of close(), and a later close() touched neither
C21_Witness ==
    /\ closeCalls >= 2
    /\ clientCloseErrors = 1
    /\ closeRaised = 1
    /\ quitCalls = 1
    /\ clientCloseCalls = 1
    /\ _driver = None /\ _proxy = None

\* when the readiness wait in progress, or last run, was invoked
WaitStart == deadline - _timeout

\* C22: the network-idle step returns no earlier than 600 ms (IdleTicks)
\* into the readiness wait and the DOM-quiet step, which installs its
\* observer after that, no earlier than 400 ms (DomIdleTicks) later, hence
\* no earlier than 1.0 s into the wait; so the readiness wait of a session
\* whose timeout is below 1.0 s never succeeds: nothing is extracted, and
\* the wait ends with a timeout unless a command to the engine failed.
C22_NoSuccessUnderOneSecond ==
    /\ (stageIdx >= 1 /\ stagesOk >= 3) => now - WaitStart >= IdleTicks
    /\ (stageIdx >= 1 /\ stagesOk >= 4)
           => now - WaitStart >= IdleTicks + DomIdleTicks
    /\ (stageIdx >= 1 /\ _timeout < IdleTicks + DomIdleTicks)
           => /\ stagesOk < Len(steps)
              /\ pc # "extract"
              /\ artifact = None
              /\ pc \notin {"wait", "in_stage"}
                    => pending.type \in {"TimeoutException", "WebDriverException"}
              /\ (pc \notin {"wait", "in_stage"} /\ primary # "WebDriverException")
                    => pending.type = "TimeoutException"

\* a session with a timeout of 0.95 s on a page that was ready at once and
\* never changed: the network went quiet, and the DOM-quiet step ran out
\* of budget
C22_Witness ==
    /\ _timeout = IdleTicks + DomIdleTicks - 1
    /\ pc = "exit"
    /\ stageIdx = 4 /\ stagesOk = 3
    /\ pending = WaitTimeout
    /\ now - WaitStart <= _timeout + FastPoll
    /\ mutObs /\ lastMut = WaitStart + IdleTicks

====
